---- MODULE Spec2Model ----
(***************************************************************************)
(* Model of the ledger store of src/app.py: a workbook file with one sheet *)
(* per (month, year), two 3-column tables per sheet (donations under the   *)
(* header of row 2, expenses under the header of row 6), the operations    *)
(* that read and append rows, the monthly totals and the rolling balance.  *)
(*                                                                         *)
(* A sheet is a function from the populated row numbers to rows            *)
(* <<c1, c2, c3>>; a cell that was never written, or was written None, is  *)
(* absent (openpyxl reads both as None).  Cell values are tagged records:  *)
(* None, Str(s), Num(n), and DateV(s) for a date parsed by pandas.         *)
(* Amounts are integers (whole currency units).                            *)
(***************************************************************************)
EXTENDS Integers, Sequences, FiniteSets, TLC

VARIABLES
    file,       \* the backing file FILE_NAME: [exists, sheets]
    ret,        \* the last completed operation, its arguments and its result
    donLog,     \* per sheet key: donations appended successfully since the last clear
    expLog,     \* per sheet key: expenses appended successfully since the last clear
    appended,   \* keys to which some record was ever appended successfully
    nAppends,   \* number of append calls made so far
    pc,         \* concurrent specifications: position of each process in its cycle
    wbOf,       \* concurrent specifications: the workbook each process has loaded
    job,        \* concurrent specifications: the call each process is running
    stale,      \* concurrent specifications: the file was saved since the process loaded it
    done        \* concurrent specifications: the appends that returned without error

vars == <<file, ret, donLog, expLog, appended, nAppends, pc, wbOf, job, stale, done>>
procVars == <<pc, wbOf, job, stale, done>>

-----------------------------------------------------------------------------
(* Bounds *)

MaxMonth == 2          \* records are kept for the months 1..MaxMonth of the 12
MaxAppends == 3        \* append calls per behaviour of Spec
MaxCapAppends == 101   \* append calls per behaviour of SpecCap
MaxEdits == 2          \* append calls of the single writer in SpecReaders

(* Program constants *)

ROW_LIMIT == 10000     \* literal of the "row > 10000" guards
DON_START == 2         \* start_row of the donations table (header row)
EXP_START == 6         \* start_row of the expenses table (header row)
CAPACITY == 100        \* slots per fixed range, as documented

Years == {2025}
Months == 1..MaxMonth
BalanceMonths == 1..(MaxMonth + 1)   \* the months a balance is asked for
Keys == Years \X Months
DateStrs == {"2025-01-05"}
Descs == {""}
DonationAmounts == {5}
ExpenseAmounts == {2}
InitialBalances == {0, 50}

-----------------------------------------------------------------------------
(* Cell values *)

None == [k |-> "none"]
Str(s) == [k |-> "str", s |-> s]
Num(n) == [k |-> "num", n |-> n]
DateV(s) == [k |-> "date", s |-> s]

EmptyRow == <<None, None, None>>

\* values = [date_str, desc, amount] as the forms pass them
Values(date_str, desc, amount) == <<Str(date_str), Str(desc), Num(amount)>>
DonationRows == {Values(d, s, a) : d \in DateStrs, s \in Descs, a \in DonationAmounts}
ExpenseRows == {Values(d, s, a) : d \in DateStrs, s \in Descs, a \in ExpenseAmounts}

SPANISH_MONTHS ==
    <<"Enero", "Febrero", "Marzo", "Abril", "Mayo", "Junio",
      "Julio", "Agosto", "Septiembre", "Octubre", "Noviembre", "Diciembre">>

SECTION_TITLES == {"DONACIONES", "GASTOS (Comida y Meriendas)"}
HEADER_ROW == <<Str("Fecha"), Str("Descripción"), Str("Monto")>>

\* a sheet name that leaves the month out: all months of a year share a sheet
month_sheet_name_shared(year, month) == SPANISH_MONTHS[1] \o " " \o ToString(year)

month_sheet_name(year, month) == SPANISH_MONTHS[month] \o " " \o ToString(year)

SheetOf(key) == month_sheet_name(key[1], key[2])

\* ws.cell(row=row, column=1..3).value
RowAt(ws, row) == IF row \in DOMAIN ws THEN ws[row] ELSE EmptyRow

\* ws.cell(...).value = val for the three columns of one row
SetRow(ws, row, vals) ==
    IF vals = EmptyRow
    THEN [r \in (DOMAIN ws) \ {row} |-> ws[r]]
    ELSE [r \in (DOMAIN ws) \cup {row} |-> IF r = row THEN vals ELSE ws[r]]

-----------------------------------------------------------------------------
(* Excel I/O *)

InicioSheet ==
    (1 :> <<Str("Archivo creado por el Desglose Económico Mensual."), None, None>>)
    @@ (2 :> <<Str("Las hojas se crearán automáticamente al ingresar datos por mes."), None, None>>)

NoFile == [exists |-> FALSE, sheets |-> <<>>]

\* what wb.save writes for a cell: openpyxl writes a cell whose value is the
\* empty text as a cell without value, which load_workbook reads as None
WrittenCell(v) == IF v = Str("") THEN None ELSE v
WrittenRow(row) == <<WrittenCell(row[1]), WrittenCell(row[2]), WrittenCell(row[3])>>
WrittenSheet(ws) ==
    [r \in {q \in DOMAIN ws : WrittenRow(ws[q]) # EmptyRow} |-> WrittenRow(ws[r])]

\* wb.save(path): the whole file is replaced by the workbook in memory
wb_save(f, wb) == [exists |-> TRUE, sheets |-> [n \in DOMAIN wb |-> WrittenSheet(wb[n])]]

ensure_workbook(f) ==
    IF ~f.exists THEN wb_save(f, "Inicio" :> InicioSheet) ELSE f

load_workbook(f) == f.sheets

NewMonthSheet ==
    (1 :> <<Str("DONACIONES"), None, None>>)
    @@ (2 :> HEADER_ROW)
    @@ (5 :> <<Str("GASTOS (Comida y Meriendas)"), None, None>>)
    @@ (6 :> HEADER_ROW)

\* the workbook after openpyxl_get_ws(wb, sheet_name); the worksheet
\* returned is the entry sheet_name of it
openpyxl_get_ws(wb, sheet_name) ==
    IF sheet_name \in DOMAIN wb THEN wb ELSE wb @@ (sheet_name :> NewMonthSheet)

-----------------------------------------------------------------------------
(* Tables *)

\* str(c).strip() compared with a text: only a text cell can be equal to it
\* (no text the program writes carries surrounding blanks)
IsText(c, texts) == c.k = "str" /\ c.s \in texts

\* Both while loops walk down from a row and stop at the first row that
\* meets their stop condition.  Every row between two populated rows is
\* populated or empty, so the stop row is the least of the start row and the
\* rows just below a populated row that meets the condition.
StopCandidates(ws, row) == {row} \cup {r + 1 : r \in {q \in DOMAIN ws : q >= row}}
Least(S) == CHOOSE x \in S : \A y \in S : x <= y

\* the three break tests of read_table on one row
IsStopRow(ws, r) ==
    LET c == RowAt(ws, r) IN
    \/ c = EmptyRow
    \/ IsText(c[1], SECTION_TITLES)
    \/ c = HEADER_ROW

\* the rows list built by the while loop of read_table, from a given row on;
\* the loop also ends once row > 10000
read_rows(ws, row) ==
    LET stop == Least({r \in StopCandidates(ws, row) : IsStopRow(ws, r) \/ r > ROW_LIMIT})
    IN [i \in 1..(stop - row) |-> RowAt(ws, row + i - 1)]

\* pd.to_datetime(df["Fecha"]).dt.date: an ISO date text becomes a date, an
\* absent value stays absent; any other value makes the call raise, and the
\* column is then left as it was read
Parseable(v) == v = None \/ IsText(v, DateStrs)
ToDate(v) == IF v = None THEN None ELSE DateV(v.s)

\* pd.to_numeric(df["Monto"], errors="coerce").fillna(0.0): a number stays,
\* an absent value or a text that is no number becomes 0
ToNumeric(v) == IF v.k = "num" THEN v.n ELSE 0

\* the DataFrame of read_table: the rows read, with the types normalised
Normalise(rows) ==
    LET allDates == \A i \in 1..Len(rows) : Parseable(rows[i][1]) IN
    [i \in 1..Len(rows) |->
        [Fecha |-> IF allDates THEN ToDate(rows[i][1]) ELSE rows[i][1],
         Descripcion |-> rows[i][2],
         Monto |-> ToNumeric(rows[i][3])]]

\* read_table without the stop at a fully empty row: it reads on to the next
\* title or header, or to the last row of the sheet
read_table_through_blanks(ws, start_row) ==
    LET last == Least({r \in DOMAIN ws : \A q \in DOMAIN ws : q <= r})
        stop == Least({r \in (start_row + 1)..(last + 1) :
                          \/ r > last
                          \/ IsText(RowAt(ws, r)[1], SECTION_TITLES)
                          \/ RowAt(ws, r) = HEADER_ROW})
    IN Normalise([i \in 1..(stop - start_row - 1) |-> RowAt(ws, start_row + i)])

read_table(ws, start_row) == Normalise(read_rows(ws, start_row + 1))

\* the row at which the while loop of append_row stops; 0 when it raises
\* RuntimeError("Tabla demasiado larga")
first_empty_row(ws, row) ==
    LET stop == Least({r \in StopCandidates(ws, row) : RowAt(ws, r) = EmptyRow})
    IN IF stop > ROW_LIMIT THEN 0 ELSE stop

\* append_row that starts its scan one row too low
append_row_second(ws, start_row, values) ==
    LET row == first_empty_row(ws, start_row + 2) IN
    IF row = 0 THEN [ok |-> FALSE, ws |-> ws]
    ELSE [ok |-> TRUE, ws |-> SetRow(ws, row, values)]

append_row(ws, start_row, values) ==
    LET row == first_empty_row(ws, start_row + 1) IN
    IF row = 0 THEN [ok |-> FALSE, ws |-> ws]
    ELSE [ok |-> TRUE, ws |-> SetRow(ws, row, values)]

-----------------------------------------------------------------------------
(* Operations on the file, as functions of the file they find *)

\* get_month_data: the file it leaves and the two tables it returns
get_month_data(f, year, month) ==
    LET wb == openpyxl_get_ws(load_workbook(ensure_workbook(f)), month_sheet_name(year, month))
        ws == wb[month_sheet_name(year, month)]
    IN [file |-> wb_save(ensure_workbook(f), wb),
        donations |-> read_table(ws, DON_START),
        expenses |-> read_table(ws, EXP_START)]

\* the part of add_donation / add_expense between load_workbook and wb.save:
\* the workbook in memory after openpyxl_get_ws and append_row
append_to_month(wb, year, month, start_row, values) ==
    LET name == month_sheet_name(year, month)
        wb1 == openpyxl_get_ws(wb, name)
        res == append_row(wb1[name], start_row, values)
    IN [ok |-> res.ok, wb |-> [wb1 EXCEPT ![name] = res.ws]]

\* add_donation / add_expense: the file it leaves and whether it returned;
\* when append_row raises, wb.save is not reached
add_row(f, year, month, start_row, values) ==
    LET a == append_to_month(load_workbook(ensure_workbook(f)), year, month, start_row, values)
    IN IF a.ok
       THEN [ok |-> TRUE, file |-> wb_save(ensure_workbook(f), a.wb)]
       ELSE [ok |-> FALSE, file |-> ensure_workbook(f)]

add_donation(f, year, month, values) == add_row(f, year, month, DON_START, values)

add_expense(f, year, month, values) == add_row(f, year, month, EXP_START, values)

\* df["Monto"].sum()
RECURSIVE SumMonto(_)
SumMonto(df) == IF df = <<>> THEN 0 ELSE df[1].Monto + SumMonto(Tail(df))

\* monthly_totals that adds the expenses to the donations total
monthly_totals_crossed(don_df, exp_df) ==
    <<IF don_df # <<>> THEN SumMonto(don_df) + SumMonto(exp_df) ELSE 0,
      IF exp_df # <<>> THEN SumMonto(exp_df) ELSE 0>>

monthly_totals(don_df, exp_df) ==
    <<IF don_df # <<>> THEN SumMonto(don_df) ELSE 0,
      IF exp_df # <<>> THEN SumMonto(exp_df) ELSE 0>>

\* the loop of compute_previous_balance_for_month from month m on: the file
\* it leaves and the balance it reaches
RECURSIVE roll(_, _, _, _, _)
roll(f, year, m, month, prev) ==
    IF m >= month THEN [file |-> f, prev |-> prev]
    ELSE LET g == get_month_data(f, year, m)
             t == monthly_totals(g.donations, g.expenses)
         IN roll(g.file, year, m + 1, month, prev + t[1] - t[2])

\* the loop run over range(1, month + 1): the month itself is counted
compute_previous_balance_inclusive(f, year, month, initial_prev_jan) ==
    roll(f, year, 1, month + 1, initial_prev_jan)

compute_previous_balance_for_month(f, year, month, initial_prev_jan) ==
    roll(f, year, 1, month, initial_prev_jan)

\* clearMonth: every slot of both fixed ranges of the month's sheet is
\* blanked, the titles and headers of the layout stay
FixedRanges == ((DON_START + 1)..(DON_START + CAPACITY) \cup (EXP_START + 1)..(EXP_START + CAPACITY))
               \ {EXP_START - 1, EXP_START}

clear_month(f, year, month) ==
    LET name == month_sheet_name(year, month)
        wb == openpyxl_get_ws(load_workbook(ensure_workbook(f)), name)
        ws == [r \in (DOMAIN wb[name]) \ FixedRanges |-> wb[name][r]]
    IN wb_save(ensure_workbook(f), [wb EXCEPT ![name] = ws])

-----------------------------------------------------------------------------
(* The store used by one caller at a time: every operation runs to its end *)
(* before the next one starts                                              *)

Procs == {"e1", "e2", "rd"}

Init ==
    /\ file = NoFile
    /\ ret = [op |-> "none"]
    /\ donLog = [k \in Keys |-> <<>>]
    /\ expLog = [k \in Keys |-> <<>>]
    /\ appended = {}
    /\ nAppends = 0
    /\ pc = [p \in Procs |-> "idle"]
    /\ wbOf = [p \in Procs |-> <<>>]
    /\ job = [p \in Procs |-> [op |-> "none"]]
    /\ stale = [p \in Procs |-> FALSE]
    /\ done = {}

GetMonthData(year, month) ==
    LET g == get_month_data(file, year, month) IN
    /\ file' = g.file
    /\ ret' = [op |-> "get_month_data", key |-> <<year, month>>,
               donations |-> g.donations, expenses |-> g.expenses]
    /\ UNCHANGED <<donLog, expLog, appended, nAppends>>
    /\ UNCHANGED procVars

AddDonation(year, month, values, limit) ==
    LET r == add_donation(file, year, month, values)
        key == <<year, month>> IN
    /\ nAppends < limit
    /\ file' = r.file
    /\ ret' = [op |-> "add_donation", key |-> key, values |-> values, ok |-> r.ok]
    /\ donLog' = IF r.ok THEN [donLog EXCEPT ![key] = Append(@, values)] ELSE donLog
    /\ appended' = IF r.ok THEN appended \cup {key} ELSE appended
    /\ nAppends' = nAppends + 1
    /\ UNCHANGED expLog
    /\ UNCHANGED procVars

AddExpense(year, month, values, limit) ==
    LET r == add_expense(file, year, month, values)
        key == <<year, month>> IN
    /\ nAppends < limit
    /\ file' = r.file
    /\ ret' = [op |-> "add_expense", key |-> key, values |-> values, ok |-> r.ok]
    /\ expLog' = IF r.ok THEN [expLog EXCEPT ![key] = Append(@, values)] ELSE expLog
    /\ appended' = IF r.ok THEN appended \cup {key} ELSE appended
    /\ nAppends' = nAppends + 1
    /\ UNCHANGED donLog
    /\ UNCHANGED procVars

\* the totals of the page: get_month_data, then monthly_totals of its result
MonthlyTotals(year, month) ==
    LET g == get_month_data(file, year, month) IN
    /\ file' = g.file
    /\ ret' = [op |-> "monthly_totals", key |-> <<year, month>>,
               donations |-> g.donations, expenses |-> g.expenses,
               totals |-> monthly_totals(g.donations, g.expenses)]
    /\ UNCHANGED <<donLog, expLog, appended, nAppends>>
    /\ UNCHANGED procVars

ComputePreviousBalance(year, month, initial_prev_jan) ==
    LET c == compute_previous_balance_for_month(file, year, month, initial_prev_jan) IN
    /\ file' = c.file
    /\ ret' = [op |-> "compute_previous_balance_for_month", key |-> <<year, month>>,
               initial |-> initial_prev_jan, prev |-> c.prev]
    /\ UNCHANGED <<donLog, expLog, appended, nAppends>>
    /\ UNCHANGED procVars

ClearMonth(year, month) ==
    /\ file' = clear_month(file, year, month)
    /\ ret' = [op |-> "clear_month", key |-> <<year, month>>,
               before |-> get_month_data(file, year, month)]
    /\ donLog' = [donLog EXCEPT ![<<year, month>>] = <<>>]
    /\ expLog' = [expLog EXCEPT ![<<year, month>>] = <<>>]
    /\ UNCHANGED <<appended, nAppends>>
    /\ UNCHANGED procVars

Next ==
    \/ \E y \in Years, m \in Months : GetMonthData(y, m)
    \/ \E y \in Years, m \in Months, v \in DonationRows : AddDonation(y, m, v, MaxAppends)
    \/ \E y \in Years, m \in Months, v \in ExpenseRows : AddExpense(y, m, v, MaxAppends)
    \/ \E y \in Years, m \in Months : MonthlyTotals(y, m)
    \/ \E y \in Years, m \in BalanceMonths, x \in InitialBalances :
          ComputePreviousBalance(y, m, x)
    \/ \E y \in Years, m \in Months : ClearMonth(y, m)

Spec == Init /\ [][Next]_vars

-----------------------------------------------------------------------------
(* Properties of the store used by one caller at a time *)

GetOf(key) == get_month_data(file, key[1], key[2])

\* a record as it is read back: written, then normalised by read_table
ReadBack(values) == Normalise(<<WrittenRow(values)>>)[1]

\* C1: after appendDonation(y, m, r) and then getMonth(y, m), the n-th
\* donation appended to the month is the n-th donation read back, for every
\* n: the donations returned are the donations appended, in order, with the
\* types normalised (and an empty description read back as an absent one).
C1_DonationsReadBackInOrder ==
    ret.op = "get_month_data" =>
        /\ Len(ret.donations) = Len(donLog[ret.key])
        /\ \A n \in 1..Len(donLog[ret.key]) :
              ret.donations[n] = ReadBack(donLog[ret.key][n])

\* C9: within one month, appending a donation leaves the expenses read back
\* unchanged, and appending an expense leaves the donations read back
\* unchanged.
C9_AppendLeavesOtherSequence ==
    [][/\ (ret'.op = "add_donation" =>
              get_month_data(file', ret'.key[1], ret'.key[2]).expenses
                = get_month_data(file, ret'.key[1], ret'.key[2]).expenses)
       /\ (ret'.op = "add_expense" =>
              get_month_data(file', ret'.key[1], ret'.key[2]).donations
                = get_month_data(file, ret'.key[1], ret'.key[2]).donations)]_vars

\* the file without the sheets of the given months of a year
WithoutMonths(f, year, months) ==
    IF ~f.exists THEN f
    ELSE [f EXCEPT !.sheets =
            [n \in (DOMAIN f.sheets) \ {month_sheet_name(year, m) : m \in months} |->
                f.sheets[n]]]

\* the net amount of one month: monthlyTotals applied to getMonth
NetOfMonth(f, year, k) ==
    LET g == get_month_data(f, year, k)
        t == monthly_totals(g.donations, g.expenses)
    IN t[1] - t[2]

RECURSIVE NetUpTo(_, _, _)
NetUpTo(f, year, k) == IF k = 0 THEN 0 ELSE NetOfMonth(f, year, k) + NetUpTo(f, year, k - 1)

\* C3: rollingPreviousBalance(Y, M, X) is X plus the sum over k = 1..M-1 of
\* donationTotal(Y,k) - expenseTotal(Y,k); for M = 1 it is X; the records of
\* month M and of later months do not change it.
C3_RollingBalanceIsFold ==
    ret.op = "compute_previous_balance_for_month" =>
        /\ ret.prev = ret.initial + NetUpTo(file, ret.key[1], ret.key[2] - 1)
        /\ ret.prev = ret.initial
             + NetUpTo(WithoutMonths(file, ret.key[1], {m \in DOMAIN SPANISH_MONTHS : m >= ret.key[2]}),
                       ret.key[1], ret.key[2] - 1)
        /\ (ret.key[2] = 1 => ret.prev = ret.initial)

C3_Witness ==
    /\ ret.op = "compute_previous_balance_for_month"
    /\ ret.key[2] = 3
    /\ ret.prev = ret.initial + 3
    /\ ret.initial = 50
    /\ donLog[<<ret.key[1], 1>>] # <<>>
    /\ expLog[<<ret.key[1], 2>>] # <<>>

\* C4: getMonth of a month to which no record was ever appended returns two
\* empty sequences, whatever was appended to other months and whether or not
\* the file or the sheet existed.
C4_UntouchedMonthIsEmpty ==
    (ret.op = "get_month_data" /\ ret.key \notin appended) =>
        (ret.donations = <<>> /\ ret.expenses = <<>>)

C4_Witness ==
    /\ ret.op = "get_month_data"
    /\ ret.key \notin appended
    /\ appended # {}

\* C5: after clearMonth(y, m), getMonth(y, m) returns two empty sequences,
\* whatever the month held before.
C5_ClearedMonthIsEmpty ==
    ret.op = "clear_month" =>
        (GetOf(ret.key).donations = <<>> /\ GetOf(ret.key).expenses = <<>>)

C5_Witness ==
    /\ ret.op = "clear_month"
    /\ Len(ret.before.donations) = 2
    /\ ret.before.expenses # <<>>
    /\ GetOf(ret.key).donations = <<>>

\* the sum of the amounts of the first n records
RECURSIVE AmountsUpTo(_, _)
AmountsUpTo(df, n) == IF n = 0 THEN 0 ELSE AmountsUpTo(df, n - 1) + df[n].Monto

\* C6: monthlyTotals returns, for each of the two sequences on its own, the
\* sum of the amounts of its records, and 0 for a sequence without records.
C6_TotalsAreSums ==
    ret.op = "monthly_totals" =>
        /\ ret.totals[1] = AmountsUpTo(ret.donations, Len(ret.donations))
        /\ ret.totals[2] = AmountsUpTo(ret.expenses, Len(ret.expenses))
        /\ (ret.donations = <<>> => ret.totals[1] = 0)
        /\ (ret.expenses = <<>> => ret.totals[2] = 0)

C6_Witness ==
    /\ ret.op = "monthly_totals"
    /\ Len(ret.donations) = 2
    /\ ret.totals = <<10, 5>>

\* the rows of a table body that hold something
DonationBody(ws) == {r \in DOMAIN ws : r > DON_START /\ r < EXP_START - 1}
ExpenseBody(ws) == {r \in DOMAIN ws : r > EXP_START}

\* C7: in every month sheet and in each of its two tables, the populated
\* rows of the table body start at its first row and have no gap: no empty
\* row of the body lies before a populated one.
C7_PopulatedRowsContiguous ==
    file.exists =>
        \A k \in Keys : SheetOf(k) \in DOMAIN file.sheets =>
            LET ws == file.sheets[SheetOf(k)] IN
            /\ \A r \in DonationBody(ws) : (DON_START + 1)..r \subseteq DOMAIN ws
            /\ \A r \in ExpenseBody(ws) : (EXP_START + 1)..r \subseteq DOMAIN ws

C7_Witness ==
    /\ file.exists
    /\ \E k \in Keys :
          /\ SheetOf(k) \in DOMAIN file.sheets
          /\ Cardinality(DonationBody(file.sheets[SheetOf(k)])) = 2
          /\ ExpenseBody(file.sheets[SheetOf(k)]) # {}
          /\ expLog[k] # <<>>

-----------------------------------------------------------------------------
(* One month filled with donations *)

CapYear == CHOOSE y \in Years : TRUE
CapValues == CHOOSE v \in DonationRows : TRUE

NextCap ==
    \/ AddDonation(CapYear, 1, CapValues, MaxCapAppends)
    \/ GetMonthData(CapYear, 1)

SpecCap == Init /\ [][NextCap]_vars

\* C2: of 101 donations appended to one month the first 100 succeed and the
\* 101st fails with the capacity error and changes nothing; getMonth then
\* returns exactly the 100 donations appended successfully.
C2_HundredAndFirstAppendFails ==
    /\ (ret.op = "add_donation" /\ nAppends <= CAPACITY => ret.ok)
    /\ (ret.op = "add_donation" /\ nAppends = CAPACITY + 1 => ~ret.ok)
    /\ (ret.op = "get_month_data" /\ nAppends = CAPACITY + 1 =>
            ret.donations = [n \in 1..CAPACITY |-> ReadBack(donLog[ret.key][n])])

-----------------------------------------------------------------------------
(* Callers running at the same time: the steps of a call that touch the    *)
(* file are ensure_workbook, load_workbook and wb.save; what lies between  *)
(* load and save works on the caller's own workbook                        *)

Editors == {"e1", "e2"}
Writer == "e1"
Reader == "rd"
AppendOps == {"add_donation", "add_expense"}
StartRowOf(op) == IF op = "add_donation" THEN DON_START ELSE EXP_START
RowsOf(op) == IF op = "add_donation" THEN DonationRows ELSE ExpenseRows

\* the call starts: ensure_workbook(FILE_NAME)
BeginAppend(p, op, year, month, values, limit) ==
    /\ pc[p] = "idle"
    /\ nAppends < limit
    /\ job' = [job EXCEPT ![p] = [op |-> op, key |-> <<year, month>>, values |-> values]]
    /\ file' = ensure_workbook(file)
    /\ pc' = [pc EXCEPT ![p] = "ensured"]
    /\ nAppends' = nAppends + 1
    /\ UNCHANGED <<ret, donLog, expLog, appended, wbOf, stale, done>>

BeginRead(p, year, month) ==
    /\ pc[p] = "idle"
    /\ job' = [job EXCEPT ![p] = [op |-> "get_month_data", key |-> <<year, month>>]]
    /\ file' = ensure_workbook(file)
    /\ pc' = [pc EXCEPT ![p] = "ensured"]
    /\ UNCHANGED <<ret, donLog, expLog, appended, nAppends, wbOf, stale, done>>

\* wb = load_workbook(FILE_NAME)
Load(p) ==
    /\ pc[p] = "ensured"
    /\ wbOf' = [wbOf EXCEPT ![p] = load_workbook(file)]
    /\ stale' = [stale EXCEPT ![p] = FALSE]
    /\ pc' = [pc EXCEPT ![p] = "loaded"]
    /\ UNCHANGED <<file, ret, donLog, expLog, appended, nAppends, job, done>>

\* every other process that holds a loaded workbook now holds an old one
StaleAfterSaveBy(p) ==
    [q \in Procs |-> IF q # p /\ pc[q] = "loaded" THEN TRUE ELSE stale[q]]

\* the rest of add_donation / add_expense, with the workbook given
FinishAppend(p, wb) ==
    LET a == append_to_month(wb, job[p].key[1], job[p].key[2],
                             StartRowOf(job[p].op), job[p].values) IN
    /\ pc[p] = "loaded"
    /\ job[p].op \in AppendOps
    /\ file' = IF a.ok THEN wb_save(file, a.wb) ELSE file
    /\ done' = IF a.ok THEN done \cup {[p |-> p, n |-> Cardinality(done) + 1, call |-> job[p],
                                         stale |-> stale[p]]}
               ELSE done
    /\ stale' = IF a.ok THEN StaleAfterSaveBy(p) ELSE stale
    /\ pc' = [pc EXCEPT ![p] = "idle"]
    /\ UNCHANGED <<ret, donLog, expLog, appended, nAppends, wbOf, job>>

\* an append that takes the file as it is when it saves
SaveAppendOnCurrentFile(p) == FinishAppend(p, load_workbook(file))

\* openpyxl_get_ws, append_row and wb.save on the workbook loaded before
SaveAppend(p) == FinishAppend(p, wbOf[p])

\* the rest of get_month_data: openpyxl_get_ws, read_table twice, wb.save
SaveRead(p) ==
    LET name == SheetOf(job[p].key)
        wb == openpyxl_get_ws(wbOf[p], name) IN
    /\ pc[p] = "loaded"
    /\ job[p].op = "get_month_data"
    /\ file' = wb_save(file, wb)
    /\ ret' = [op |-> "get_month_data", key |-> job[p].key,
               donations |-> read_table(wb[name], DON_START),
               expenses |-> read_table(wb[name], EXP_START)]
    /\ stale' = StaleAfterSaveBy(p)
    /\ pc' = [pc EXCEPT ![p] = "idle"]
    /\ UNCHANGED <<donLog, expLog, appended, nAppends, wbOf, job, done>>

\* two editors, one append each
NextRace ==
    \/ \E p \in Editors, op \in AppendOps, y \in Years, m \in Months :
       \E v \in RowsOf(op) :
          job[p].op = "none" /\ BeginAppend(p, op, y, m, v, Cardinality(Editors))
    \/ \E p \in Editors : Load(p)
    \/ \E p \in Editors : SaveAppend(p)

SpecRace == Init /\ [][NextRace]_vars

\* one writer and one reader; the reader runs get_month_data again and again,
\* as the page and the loop of compute_previous_balance_for_month do
NextReaders ==
    \/ \E op \in AppendOps, y \in Years, m \in Months :
       \E v \in RowsOf(op) :
          BeginAppend(Writer, op, y, m, v, MaxEdits)
    \/ \E y \in Years, m \in Months : BeginRead(Reader, y, m)
    \/ \E p \in {Writer, Reader} : Load(p)
    \/ SaveAppend(Writer)
    \/ SaveRead(Reader)

SpecReaders == Init /\ [][NextReaders]_vars

\* the number of populated rows below the table headers, over all sheets
RecordsIn(f) ==
    IF ~f.exists THEN 0
    ELSE LET names == {SheetOf(k) : k \in Keys} \cap DOMAIN f.sheets
             rows == UNION {DOMAIN f.sheets[n] : n \in names}
             cells == {<<n, r>> \in names \X rows :
                          r \in DonationBody(f.sheets[n]) \cup ExpenseBody(f.sheets[n])}
         IN Cardinality(cells)

\* both editors have run their call to its end
BothReturned == \A p \in Editors : pc[p] = "idle" /\ job[p].op \in AppendOps

\* C8: when two appends run their load-mutate-save cycles at the same time
\* and one saves a workbook loaded before the other saved, both return
\* without error and the file holds only one of the two records; when
\* neither did, it holds both.
C8_RaceClobbersOneAppend ==
    BothReturned =>
        /\ Cardinality(done) = 2
        /\ IF \E d \in done : d.stale THEN RecordsIn(file) = 1 ELSE RecordsIn(file) = 2

C8_Witness ==
    /\ BothReturned
    /\ Cardinality(done) = 2
    /\ \E d \in done : d.stale
    /\ RecordsIn(file) = 1

\* C10: with one append in flight at a time and reads running beside it, a
\* read never removes data: once the reads have completed, every record
\* whose append returned is still in the file.
C10_ReadsRemoveNothing ==
    pc[Reader] = "idle" => RecordsIn(file) >= Cardinality(done)

====
